---- MODULE Spec2Model ----
(***************************************************************************)
(* Model of src/core/messages.rs: the length-prefixed frame codec          *)
(* (make_message, read_msg), the NUL field splitter (read_fields), the     *)
(* field encoder (make_field, make_field_handle_empty) and the two         *)
(* message catalogs (ServerRspMsg, ServerReqMsg and their discriminants).  *)
(*                                                                         *)
(* Representation.                                                         *)
(*   - A byte is a number in 0..255; a Vec<u8>, a &[u8], a String and a    *)
(*     &str are sequences of bytes (a String is its UTF-8 bytes, so        *)
(*     str::len is Len and String::from_utf8 is a validity check).         *)
(*   - An i32 is an integer in -2^31..2^31-1.                              *)
(*   - A usize is a sequence of 16-bit limbs, most significant first,      *)
(*     ptr_width \div 16 of them: TLC's integers are 32 bits wide, so a    *)
(*     usize does not fit in one.                                          *)
(*   - A call that panics (an unwrap on Err) has the result [kind |->      *)
(*     "Panic"]; one that returns Ok(v) has [kind |-> "Ok", ...]; one that *)
(*     returns Err(e) would have [kind |-> "Err"].                         *)
(***************************************************************************)
EXTENDS Integers, Sequences, FiniteSets, TLC

VARIABLES
    pc,         \* position of the scenario being run
    ptr_width,  \* width of usize on the build target: 32 or 64
    msg,        \* the &str given to make_message
    frame,      \* the result of make_message
    buf,        \* the receive buffer given to read_msg
    res,        \* the result of the last read_msg
    sent,       \* the payloads framed into the receive buffer, in order
    tail,       \* the incomplete bytes that follow them
    got,        \* the payloads extracted so far by the draining loop
    wire,       \* the bytes of the stream that have not arrived yet
    payload,    \* the &str given to read_fields
    fields,     \* the result of read_fields
    val,        \* the &dyn Any given to make_field
    field,      \* the result of make_field
    field_he,   \* the result of make_field_handle_empty
    code,       \* the catalog (dir) and the i32 (n) given to from_i32
    entry       \* the discriminant from_i32 returns for it

vars == <<pc, ptr_width, msg, frame, buf, res, sent, tail, got, wire, payload, fields, val, field, field_he, code, entry>>

frameVars == <<msg, frame>>
readVars == <<buf, res>>
drainVars == <<sent, tail, got, wire>>
splitVars == <<payload, fields>>
fieldVars == <<val, field, field_he>>
catalogVars == <<code, entry>>

\* The value of a variable a scenario does not use.
None == [kind |-> "None"]

-----------------------------------------------------------------------------
(* Bounds of the model. *)

\* longest body, in bytes, given to make_message
MaxMsgLen == 4
\* longest raw receive buffer, in bytes, given to read_msg
MaxBufLen == 6
\* most frames buffered ahead of the draining loop
MaxFrames == 2
\* longest payload, in bytes, of a buffered frame
MaxBody == 1
\* longest incomplete tail, in bytes, after the buffered frames
MaxTail == 4
\* longest payload, in bytes, given to read_fields
MaxPayload == 5
\* the i32 values -MaxSmallInt..MaxSmallInt are given to make_field, next to
\* the values at the ends of the i32 range
MaxSmallInt == 11
\* longest String or &str, in bytes, given to make_field
MaxStrLen == 2
\* the i32 values -1..MaxCode are given to from_i32
MaxCode == 103

-----------------------------------------------------------------------------
(* Sequences of bytes. *)

RECURSIVE SeqsUpTo(_, _)
\* Every sequence over S of length at most n.
SeqsUpTo(S, n) ==
    IF n = 0 THEN {<<>>}
    ELSE LET shorter == SeqsUpTo(S, n - 1)
         IN  shorter \cup {Append(s, x) : s \in {t \in shorter : Len(t) = n - 1}, x \in S}

\* &s[from..to] of Rust, with zero-based from (inclusive) and to (exclusive).
Slice(s, from, to) == SubSeq(s, from + 1, to)

\* A continuation byte of UTF-8, 0x80..0xBF.
IsCont(b) == b >= 128 /\ b <= 191

RECURSIVE Utf8From(_, _)
\* core::str::from_utf8 on s from (one-based) position i: TRUE iff the rest
\* is well-formed UTF-8 (no overlong form, no surrogate, nothing above
\* U+10FFFF, no truncated sequence).
Utf8From(s, i) ==
    IF i > Len(s) THEN TRUE
    ELSE LET b == s[i]
             c(k) == i + k <= Len(s) /\ IsCont(s[i + k])
             in(k, lo, hi) == i + k <= Len(s) /\ s[i + k] >= lo /\ s[i + k] <= hi
         IN  IF b <= 127 THEN Utf8From(s, i + 1)
             ELSE IF b >= 194 /\ b <= 223 THEN c(1) /\ Utf8From(s, i + 2)
             ELSE IF b = 224 THEN in(1, 160, 191) /\ c(2) /\ Utf8From(s, i + 3)
             ELSE IF b = 237 THEN in(1, 128, 159) /\ c(2) /\ Utf8From(s, i + 3)
             ELSE IF b >= 225 /\ b <= 239 THEN c(1) /\ c(2) /\ Utf8From(s, i + 3)
             ELSE IF b = 240 THEN in(1, 144, 191) /\ c(2) /\ c(3) /\ Utf8From(s, i + 4)
             ELSE IF b >= 241 /\ b <= 243 THEN c(1) /\ c(2) /\ c(3) /\ Utf8From(s, i + 4)
             ELSE IF b = 244 THEN in(1, 128, 143) /\ c(2) /\ c(3) /\ Utf8From(s, i + 4)
             ELSE FALSE

\* String::from_utf8(bytes).is_ok()
IsUtf8(s) == Utf8From(s, 1)

\* msg.as_ascii_str().is_ok(): every byte is below 0x80.
IsAscii(s) == \A i \in 1..Len(s) : s[i] <= 127

-----------------------------------------------------------------------------
(* Fixed-width integers. *)

\* The usize of a length n (n < 2^31), on the target's pointer width.
UsizeOfNat(n) ==
    IF ptr_width = 64 THEN <<0, 0, n \div 65536, n % 65536>>
    ELSE <<n \div 65536, n % 65536>>

\* `u as i32` for a usize u: the low 32 bits, read as two's complement.
UsizeAsI32(u) ==
    LET hi == u[Len(u) - 1]
        lo == u[Len(u)]
    IN  IF hi >= 32768 THEN (hi - 65536) * 65536 + lo ELSE hi * 65536 + lo

\* `x as usize` for an i32 x: sign extension to the pointer width.
I32AsUsize(x) ==
    LET hi == IF x < 0 THEN (x \div 65536) + 65536 ELSE x \div 65536
        lo == x % 65536
    IN  IF ptr_width = 64
        THEN (IF x < 0 THEN <<65535, 65535>> ELSE <<0, 0>>) \o <<hi, lo>>
        ELSE <<hi, lo>>

\* i32::to_be_bytes(x)
I32ToBeBytes(x) ==
    LET hi == IF x < 0 THEN (x \div 65536) + 65536 ELSE x \div 65536
        lo == x % 65536
    IN  <<hi \div 256, hi % 256, lo \div 256, lo % 256>>

\* i32::from_be_bytes(b) for the four bytes b
I32FromBeBytes(b) ==
    LET hi == b[1] * 256 + b[2]
        lo == b[3] * 256 + b[4]
    IN  IF hi >= 32768 THEN (hi - 65536) * 65536 + lo ELSE hi * 65536 + lo

\* n >= u for a length n and a usize u.
NatGeqUsize(n, u) ==
    /\ \A i \in 1..(Len(u) - 2) : u[i] = 0
    /\ u[Len(u) - 1] < 32768
    /\ u[Len(u) - 1] * 65536 + u[Len(u)] <= n

\* The number a usize u that is at most a length stands for.
UsizeToNat(u) == u[Len(u) - 1] * 65536 + u[Len(u)]

-----------------------------------------------------------------------------
(* Frame transport. *)

Ok3(size, text, rest) == [kind |-> "Ok", size |-> size, text |-> text, rest |-> rest]
Panic == [kind |-> "Panic"]

\* read_msg with the incomplete branches handing back the buffer without its
\* first four bytes, as if the length prefix had been consumed.
read_msg_consumes_prefix(b) ==
    IF Len(b) < 4 THEN Ok3(UsizeOfNat(0), <<>>, <<>>)
    ELSE LET size == I32AsUsize(I32FromBeBytes(Slice(b, 0, 4)))
         IN  IF NatGeqUsize(Len(b) - 4, size)
             THEN LET n == UsizeToNat(size)
                      text == Slice(b, 4, 4 + n)
                  IN  IF IsUtf8(text) THEN Ok3(size, text, Slice(b, 4 + n, Len(b)))
                      ELSE Panic
             ELSE Ok3(size, <<>>, Slice(b, 4, Len(b)))

\* read_msg with the bounds test off by one (> for >=): a frame that ends
\* exactly at the end of the buffer is taken to be incomplete.
read_msg_strict(b) ==
    IF Len(b) < 4 THEN Ok3(UsizeOfNat(0), <<>>, b)
    ELSE LET size == I32AsUsize(I32FromBeBytes(Slice(b, 0, 4)))
         IN  IF NatGeqUsize(Len(b) - 5, size)
             THEN LET n == UsizeToNat(size)
                      text == Slice(b, 4, 4 + n)
                  IN  IF IsUtf8(text) THEN Ok3(size, text, Slice(b, 4 + n, Len(b)))
                      ELSE Panic
             ELSE Ok3(size, <<>>, b)

\* read_msg(buf): Ok((size, text, remainder)), or a panic where
\* String::from_utf8(..).unwrap() meets bytes that are not UTF-8.
read_msg(b) ==
    IF Len(b) < 4 THEN Ok3(UsizeOfNat(0), <<>>, b)
    ELSE LET size == I32AsUsize(I32FromBeBytes(Slice(b, 0, 4)))
         IN  IF NatGeqUsize(Len(b) - 4, size)
             THEN LET n == UsizeToNat(size)
                      text == Slice(b, 4, 4 + n)
                  IN  IF IsUtf8(text) THEN Ok3(size, text, Slice(b, 4 + n, Len(b)))
                      ELSE Panic
             ELSE Ok3(size, <<>>, b)

\* make_message writing the length prefix least significant byte first.
make_message_le(m) ==
    LET be == I32ToBeBytes(UsizeAsI32(UsizeOfNat(Len(m))))
    IN  IF ~IsAscii(m) THEN Panic
        ELSE [kind |-> "Ok", bytes |-> <<be[4], be[3], be[2], be[1]>> \o m]

\* make_message(msg): Ok(frame), or a panic where as_ascii_str().unwrap()
\* meets a byte above 0x7F. The frame is read back once with read_msg, whose
\* result is dropped.
make_message(m) ==
    LET prefix == I32ToBeBytes(UsizeAsI32(UsizeOfNat(Len(m))))
    IN  IF ~IsAscii(m) THEN Panic
        ELSE LET tmp == prefix \o m
                 back == read_msg(tmp)
             IN  IF back.kind = "Panic" THEN Panic
                 ELSE [kind |-> "Ok", bytes |-> tmp]

-----------------------------------------------------------------------------
(* Scenario: one body is framed, and the frame is decoded. *)

\* The bytes bodies are drawn from: NUL, 'a', and the two bytes of U+00E9.
BodyBytes == {0, 97, 195, 169}

InitFrame ==
    /\ pc = "make"
    /\ ptr_width \in {32, 64}
    /\ msg \in {s \in SeqsUpTo(BodyBytes, MaxMsgLen) : IsUtf8(s)}
    /\ frame = None
    /\ buf = <<>> /\ res = None
    /\ sent = <<>> /\ tail = <<>> /\ got = <<>> /\ wire = <<>>
    /\ payload = <<>> /\ fields = None
    /\ val = None /\ field = None /\ field_he = None
    /\ code = 0 /\ entry = None

MakeMessage ==
    /\ pc = "make"
    /\ frame' = make_message(msg)
    /\ pc' = IF frame'.kind = "Ok" THEN "framed" ELSE "aborted"
    /\ UNCHANGED <<ptr_width, msg, readVars, drainVars, splitVars, fieldVars, catalogVars>>

ReadFrame ==
    /\ pc = "framed"
    /\ buf' = frame.bytes
    /\ res' = read_msg(frame.bytes)
    /\ pc' = "read"
    /\ UNCHANGED <<ptr_width, frameVars, drainVars, splitVars, fieldVars, catalogVars>>

NextFrame == MakeMessage \/ ReadFrame

SpecFrame == InitFrame /\ [][NextFrame]_vars

\* C1 (frame round trip): for every body that is 7-bit text, make_message
\* returns a frame that is the 4-byte big-endian byte length of the body
\* followed by the body's bytes unchanged, and read_msg on that frame returns
\* exactly (byte length of the body, the body, the empty remainder).
C1_FrameRoundTrip ==
    /\ (pc # "make" /\ IsAscii(msg)) =>
          /\ frame.kind = "Ok"
          /\ Len(frame.bytes) = 4 + Len(msg)
          /\ frame.bytes[1] = 0
          /\ frame.bytes[2] * 65536 + frame.bytes[3] * 256 + frame.bytes[4] = Len(msg)
          /\ \A i \in 1..Len(msg) : frame.bytes[4 + i] = msg[i]
    /\ pc = "read" =>
          /\ res.kind = "Ok"
          /\ res.size = UsizeOfNat(Len(msg))
          /\ res.text = msg
          /\ res.rest = <<>>

\* C1's case: a body of two or more bytes, one of them NUL, was framed and
\* the frame was decoded.
C1_Witness ==
    /\ pc = "read" /\ Len(msg) >= 2 /\ (\E i \in 1..Len(msg) : msg[i] = 0)
    /\ res.kind = "Ok" /\ res.text = msg

\* C5 (unrepresentable outbound body): when the body holds a character
\* outside the 7-bit character set, make_message returns an EncodingError
\* to its caller: it neither aborts nor produces a frame.
C5_EncodingErrorReturned ==
    (pc # "make" /\ ~IsAscii(msg)) => frame.kind = "Err"

-----------------------------------------------------------------------------
(* Scenario: read_msg is called on an arbitrary buffer. *)

\* The bytes raw buffers are drawn from: 0, 1 and 2 (small declared lengths,
\* and ASCII payload), 0x80 (a prefix with the sign bit set; alone, not
\* UTF-8) and 0xC3 (with 0x80 after it, the two bytes of U+00C0).
WireBytes == {0, 1, 2, 128, 195}

InitRead ==
    /\ pc = "call"
    /\ ptr_width \in {32, 64}
    /\ buf \in SeqsUpTo(WireBytes, MaxBufLen)
    /\ res = None
    /\ msg = <<>> /\ frame = None
    /\ sent = <<>> /\ tail = <<>> /\ got = <<>> /\ wire = <<>>
    /\ payload = <<>> /\ fields = None
    /\ val = None /\ field = None /\ field_he = None
    /\ code = 0 /\ entry = None

ReadMsg ==
    /\ pc = "call"
    /\ res' = read_msg(buf)
    /\ pc' = IF res'.kind = "Ok" THEN "returned" ELSE "aborted"
    /\ UNCHANGED <<ptr_width, buf, frameVars, drainVars, splitVars, fieldVars, catalogVars>>

NextRead == ReadMsg

SpecRead == InitRead /\ [][NextRead]_vars

\* The buffer is shorter than 4 bytes, or shorter than 4 + the length that its
\* first four bytes declare, read as a big-endian unsigned integer.
ShortOfDeclared(b) ==
    \/ Len(b) < 4
    \/ ~(b[1] = 0 /\ b[2] = 0 /\ b[3] * 256 + b[4] <= Len(b) - 4)

\* C2 (partial-buffer safety): on a buffer shorter than 4 bytes, or shorter
\* than 4 + its declared length, whatever the prefix, read_msg returns
\* without aborting, with no payload text and with a remainder equal, byte
\* for byte, to the buffer it was given.
C2_PartialBufferSafety ==
    (pc # "call" /\ ShortOfDeclared(buf)) =>
        /\ pc = "returned"
        /\ res.kind = "Ok"
        /\ res.text = <<>>
        /\ res.rest = buf

\* C2's case: read_msg has returned on a buffer that holds a whole prefix
\* and a part of the payload the prefix declares.
C2_Witness ==
    /\ pc = "returned" /\ Len(buf) >= 5 /\ buf[1] = 0 /\ ShortOfDeclared(buf)
    /\ res.rest = buf

\* C4 (malformed inbound payload): on a buffer that holds a complete frame
\* whose payload is not UTF-8, read_msg returns a FramingError to its caller,
\* and on no buffer does read_msg abort the process.
C4_FramingErrorReturned ==
    /\ pc # "aborted"
    /\ (pc # "call" /\ ~ShortOfDeclared(buf)
           /\ ~IsUtf8(Slice(buf, 4, 4 + buf[3] * 256 + buf[4]))) => res.kind = "Err"

-----------------------------------------------------------------------------
(* Scenario: the receive buffer holds some frames and an incomplete tail,  *)
(* and the caller drains it, calling read_msg on each remainder in turn.   *)

\* The bytes buffered payloads are drawn from: NUL and 'a'.
PayloadBytes == {0, 97}
\* The bytes incomplete tails are drawn from: they spell short prefixes, and
\* prefixes that declare 1 byte, 256 bytes or more.
TailBytes == {0, 1}

RECURSIVE Frames(_)
\* The frames make_message gives for the bodies, one after the other.
Frames(bodies) ==
    IF bodies = <<>> THEN <<>>
    ELSE make_message(Head(bodies)).bytes \o Frames(Tail(bodies))

\* What read_msg returns at lines 1014 and 1025, where the buffer holds no
\* whole frame: no text, and the buffer itself as the remainder.
Incomplete(b, r) == r.kind = "Ok" /\ r.text = <<>> /\ r.rest = b

InitDrain ==
    /\ pc = "drain"
    /\ ptr_width \in {32, 64}
    /\ sent \in SeqsUpTo(SeqsUpTo(PayloadBytes, MaxBody), MaxFrames)
    /\ tail \in {t \in SeqsUpTo(TailBytes, MaxTail) : ShortOfDeclared(t)}
    /\ buf = Frames(sent) \o tail
    /\ got = <<>>
    /\ wire = <<>>
    /\ res = None
    /\ msg = <<>> /\ frame = None
    /\ payload = <<>> /\ fields = None
    /\ val = None /\ field = None /\ field_he = None
    /\ code = 0 /\ entry = None

\* read_msg extracts a frame: its text is kept, its remainder is the buffer
\* of the next call.
DrainExtract ==
    /\ pc = "drain"
    /\ res' = read_msg(buf)
    /\ res'.kind = "Ok" /\ ~Incomplete(buf, res')
    /\ got' = Append(got, res'.text)
    /\ buf' = res'.rest
    /\ UNCHANGED <<pc, ptr_width, sent, tail, wire, frameVars, splitVars, fieldVars, catalogVars>>

\* read_msg finds no whole frame: the loop stops. (Where read_msg panics,
\* neither step is taken: the process is gone.)
DrainStop ==
    /\ pc = "drain"
    /\ res' = read_msg(buf)
    /\ Incomplete(buf, res')
    /\ buf' = res'.rest
    /\ pc' = "drained"
    /\ UNCHANGED <<ptr_width, drainVars, frameVars, splitVars, fieldVars, catalogVars>>

NextDrain == DrainExtract \/ DrainStop

SpecDrain == InitDrain /\ [][NextDrain]_vars

RECURSIVE WireLen(_)
\* The bytes the frames of the bodies take: 4 and the body's length, each.
WireLen(bodies) == IF bodies = <<>> THEN 0 ELSE 4 + Len(Head(bodies)) + WireLen(Tail(bodies))

\* C3 (pipelining, draining): on k frames followed by an incomplete tail, the
\* calls of read_msg on the successive remainders give the k payloads in
\* their order (at every step the payloads extracted are the first ones
\* sent, and the buffer is what is left of the stream), and the loop stops
\* after exactly k extractions, on an Incomplete whose remainder is the tail.
C3_DrainInOrder ==
    /\ pc = "drain" => read_msg(buf).kind = "Ok"
    /\ Len(got) <= Len(sent)
    /\ got = SubSeq(sent, 1, Len(got))
    /\ Len(buf) = WireLen(SubSeq(sent, Len(got) + 1, Len(sent))) + Len(tail)
    /\ pc = "drained" =>
          /\ got = sent
          /\ buf = tail
          /\ res.kind = "Ok" /\ res.text = <<>> /\ res.rest = tail

\* C3's case: two frames, one of them of an empty payload, and a tail that
\* is not empty have been drained.
C3_Witness ==
    /\ pc = "drained" /\ Len(sent) = 2 /\ Len(got) = 2
    /\ (\E i \in 1..2 : sent[i] = <<>>) /\ sent[1] # sent[2]
    /\ tail # <<>>

-----------------------------------------------------------------------------
(* Field splitter. *)

RECURSIVE SplitNul(_)
\* buf.split('\u{0}').collect(): the pieces between the NULs, one more than
\* there are NULs.
SplitNul(s) ==
    IF \A i \in 1..Len(s) : s[i] # 0 THEN <<s>>
    ELSE LET i == CHOOSE j \in 1..Len(s) : s[j] = 0 /\ \A k \in 1..(j - 1) : s[k] # 0
         IN  <<SubSeq(s, 1, i - 1)>> \o SplitNul(SubSeq(s, i + 1, Len(s)))

\* read_fields that also drops the fields that are empty.
read_fields_skip_empty(p) ==
    LET all == SplitNul(p)
    IN  [kind |-> "Ok", fields |-> SelectSeq(SubSeq(all, 1, Len(all) - 1), LAMBDA f : f # <<>>)]

\* read_fields that keeps the last piece of the split.
read_fields_keep_last(p) == [kind |-> "Ok", fields |-> SplitNul(p)]

\* read_fields(buf): the pieces of the split but the last one. Vec::remove
\* panics on an index out of range.
read_fields(p) ==
    LET all == SplitNul(p)
    IN  IF Len(all) = 0 THEN Panic
        ELSE [kind |-> "Ok", fields |-> SubSeq(all, 1, Len(all) - 1)]

-----------------------------------------------------------------------------
(* Scenario: read_fields is called on a payload. *)

\* The bytes payloads are drawn from: NUL, 'a' and 'b'.
FieldBytes == {0, 97, 98}

InitSplit ==
    /\ pc = "split"
    /\ ptr_width \in {32, 64}
    /\ payload \in SeqsUpTo(FieldBytes, MaxPayload)
    /\ fields = None
    /\ msg = <<>> /\ frame = None
    /\ buf = <<>> /\ res = None
    /\ sent = <<>> /\ tail = <<>> /\ got = <<>> /\ wire = <<>>
    /\ val = None /\ field = None /\ field_he = None
    /\ code = 0 /\ entry = None

ReadFields ==
    /\ pc = "split"
    /\ fields' = read_fields(payload)
    /\ pc' = IF fields'.kind = "Ok" THEN "fields" ELSE "aborted"
    /\ UNCHANGED <<ptr_width, payload, frameVars, readVars, drainVars, fieldVars, catalogVars>>

NextSplit == ReadFields

SpecSplit == InitSplit /\ [][NextSplit]_vars

RECURSIVE JoinNul(_)
\* f1 NUL f2 NUL ... fn NUL
JoinNul(fs) == IF fs = <<>> THEN <<>> ELSE Head(fs) \o <<0>> \o JoinNul(Tail(fs))

\* C6 (field splitting): on the payload f1 NUL ... fn NUL of NUL-free fields,
\* read_fields returns exactly [f1, ..., fn]: the fields it returns are
\* NUL-free and, each followed by a NUL and put one after the other in the
\* order returned, spell the payload (there is one such list only), so no
\* field, empty or not, is dropped, added or moved; "a\0b\0\0" gives
\* ["a", "b", ""].
C6_FieldSplitting ==
    (pc # "split" /\ (payload = <<>> \/ payload[Len(payload)] = 0)) =>
        /\ fields.kind = "Ok"
        /\ \A i \in 1..Len(fields.fields) :
              \A j \in 1..Len(fields.fields[i]) : fields.fields[i][j] # 0
        /\ JoinNul(fields.fields) = payload
        /\ payload = <<97, 0, 98, 0, 0>> => fields.fields = << <<97>>, <<98>>, <<>> >>

\* C6's case: read_fields has split "a", "b" and a last empty field.
C6_Witness ==
    /\ pc = "fields" /\ payload = <<97, 0, 98, 0, 0>>
    /\ Len(fields.fields) = 3 /\ fields.fields[3] = <<>>

-----------------------------------------------------------------------------
(* Field encoder. *)

\* A &dyn Any is [type |-> the concrete type, v |-> the value]: a bool is a
\* BOOLEAN, a usize its limbs, an i32 an integer, a String or a &str its
\* bytes. An f64 is [class |-> "num", neg, int, frac] for the number
\* (-1)^neg * (int + 0.frac), frac its decimal digits, or [class |-> "max",
\* "inf" or "nan", neg]. A value of any other type has no v that is read.

\* crate::core::common::UNSET_INTEGER: i32::MAX
UNSET_INTEGER == 2147483647
\* crate::core::common::UNSET_DOUBLE: f64::MAX
UNSET_DOUBLE == [class |-> "max", neg |-> FALSE]

\* a == b for two f64: a NaN is equal to nothing.
F64Eq(a, b) == a.class # "nan" /\ b.class # "nan" /\ a = b

RECURSIVE NatToString(_)
\* The decimal digits, in ASCII, of n >= 0.
NatToString(n) ==
    IF n < 10 THEN <<48 + n>> ELSE NatToString(n \div 10) \o <<48 + (n % 10)>>

\* format!("{}", x) for an i32 x. (The last digit is split off before the
\* sign is dropped: -i32::MIN is not an i32.)
I32ToString(x) ==
    IF x >= 0 THEN NatToString(x)
    ELSE LET d == (10 - (x % 10)) % 10
             q == 0 - ((x + d) \div 10)
         IN  <<45>> \o (IF q = 0 THEN <<>> ELSE NatToString(q)) \o <<48 + d>>

\* format!("{}", x) for an f64 x: the shortest decimal that reads back as x,
\* without exponent; "NaN", "inf", "-inf".
F64ToString(x) ==
    LET sign == IF x.neg THEN <<45>> ELSE <<>>
    IN  CASE x.class = "nan" -> <<78, 97, 78>>
          [] x.class = "inf" -> sign \o <<105, 110, 102>>
          [] x.class = "max" ->
                sign \o <<49, 55, 57, 55, 54, 57, 51, 49, 51, 52, 56, 54, 50, 51, 49, 53, 55>>
                     \o [i \in 1..292 |-> 48]
          [] OTHER ->
                sign \o NatToString(x.int)
                     \o (IF x.frac = <<>> THEN <<>> ELSE <<46>> \o [i \in 1..Len(x.frac) |-> 48 + x.frac[i]])

OkText(t) == [kind |-> "Ok", text |-> t]

\* make_field without the test for the unset i32 sentinel.
make_field_no_sentinel(v) ==
    CASE v.type = "bool" -> OkText(I32ToString(IF v.v THEN 1 ELSE 0) \o <<0>>)
      [] v.type = "usize" -> OkText(I32ToString(UsizeAsI32(v.v)) \o <<0>>)
      [] v.type = "f64" ->
            IF F64Eq(UNSET_DOUBLE, v.v) THEN OkText(<<>> \o <<0>>)
            ELSE OkText(F64ToString(v.v) \o <<0>>)
      [] v.type = "i32" -> OkText(I32ToString(v.v) \o <<0>>)
      [] v.type = "String" -> OkText(v.v \o <<0>>)
      [] v.type = "&str" -> OkText(v.v \o <<0>>)
      [] OTHER -> OkText(<<0>>)

\* make_field(val): the chain of downcast_ref tests, in the order of the
\* code; a value of no tested type leaves the initial "\0".
make_field(v) ==
    CASE v.type = "bool" -> OkText(I32ToString(IF v.v THEN 1 ELSE 0) \o <<0>>)
      [] v.type = "usize" -> OkText(I32ToString(UsizeAsI32(v.v)) \o <<0>>)
      [] v.type = "f64" ->
            IF F64Eq(UNSET_DOUBLE, v.v) THEN OkText(<<>> \o <<0>>)
            ELSE OkText(F64ToString(v.v) \o <<0>>)
      [] v.type = "i32" ->
            IF UNSET_INTEGER = v.v THEN OkText(<<>> \o <<0>>)
            ELSE OkText(I32ToString(v.v) \o <<0>>)
      [] v.type = "String" -> OkText(v.v \o <<0>>)
      [] v.type = "&str" -> OkText(v.v \o <<0>>)
      [] OTHER -> OkText(<<0>>)

\* make_field_handle_empty(val)
make_field_handle_empty(v) ==
    IF v.type = "f64" /\ F64Eq(UNSET_DOUBLE, v.v)
    THEN make_field([type |-> "&str", v |-> <<>>])
    ELSE IF v.type = "i32" /\ UNSET_INTEGER = v.v
    THEN make_field([type |-> "&str", v |-> <<>>])
    ELSE make_field(v)

-----------------------------------------------------------------------------
(* Scenario: one value is encoded through both entry points. *)

\* The limbs usize values are made of: 0, 1, 0x8000 and 0xFFFF.
LimbValues == {0, 1, 32768, 65535}
\* The usize values of the target.
UsizeValues ==
    IF ptr_width = 64 THEN {<<a, b, c, d>> : a \in LimbValues, b \in LimbValues, c \in LimbValues, d \in LimbValues}
    ELSE {<<c, d>> : c \in LimbValues, d \in LimbValues}
\* The i32 values: the small ones and the ends of the range.
I32Values == (0 - MaxSmallInt)..MaxSmallInt \cup {UNSET_INTEGER, UNSET_INTEGER - 1, 0 - UNSET_INTEGER, (0 - UNSET_INTEGER) - 1}
\* The f64 values: the sentinel, its negation, the infinities, NaN, and the
\* numbers int + frac with a sign (but the negative zero).
F64Values ==
    {[class |-> c, neg |-> n] : c \in {"max", "inf", "nan"}, n \in BOOLEAN}
    \cup {x \in {[class |-> "num", neg |-> n, int |-> i, frac |-> f] : n \in BOOLEAN, i \in {0, 1, MaxSmallInt}, f \in {<<>>, <<5>>, <<2, 5>>}} :
             ~(x.neg /\ x.int = 0 /\ x.frac = <<>>)}
\* The bytes text values are drawn from: '1' and 'a'.
TextBytes == {49, 97}

\* The concrete types behind the &dyn Any: the six that make_field tests for
\* and one that it does not.
AnyTypes == {"bool", "usize", "f64", "i32", "String", "&str", "i64"}
\* The values of each.
ValuesOf(t) ==
    CASE t = "bool" -> BOOLEAN
      [] t = "usize" -> UsizeValues
      [] t = "f64" -> F64Values
      [] t = "i32" -> I32Values
      [] t = "i64" -> {0, UNSET_INTEGER}
      [] OTHER -> SeqsUpTo(TextBytes, MaxStrLen)

InitField ==
    /\ pc = "encode"
    /\ ptr_width \in {32, 64}
    /\ \E t \in AnyTypes : \E x \in ValuesOf(t) : val = [type |-> t, v |-> x]
    /\ field = None /\ field_he = None
    /\ msg = <<>> /\ frame = None
    /\ buf = <<>> /\ res = None
    /\ sent = <<>> /\ tail = <<>> /\ got = <<>> /\ wire = <<>>
    /\ payload = <<>> /\ fields = None
    /\ code = 0 /\ entry = None

MakeField ==
    /\ pc = "encode"
    /\ field' = make_field(val)
    /\ pc' = "encode_he"
    /\ UNCHANGED <<ptr_width, val, field_he, frameVars, readVars, drainVars, splitVars, catalogVars>>

MakeFieldHandleEmpty ==
    /\ pc = "encode_he"
    /\ field_he' = make_field_handle_empty(val)
    /\ pc' = "encoded"
    /\ UNCHANGED <<ptr_width, val, field, frameVars, readVars, drainVars, splitVars, catalogVars>>

NextField == MakeField \/ MakeFieldHandleEmpty

SpecField == InitField /\ [][NextField]_vars

RECURSIVE NegatedValue(_)
\* Minus the number that the ASCII digits ds spell (minus, for the digits of
\* -i32::MIN to have a value).
NegatedValue(ds) ==
    IF ds = <<>> THEN 0
    ELSE NegatedValue(SubSeq(ds, 1, Len(ds) - 1)) * 10 - (ds[Len(ds)] - 48)

\* t is the decimal representation of the i32 x: a '-' iff x < 0, then the
\* digits of |x| with no leading zero.
IsDecimalOfI32(t, x) ==
    LET neg == t # <<>> /\ t[1] = 45
        ds == IF neg THEN Tail(t) ELSE t
    IN  /\ neg <=> x < 0
        /\ ds # <<>> /\ Len(ds) <= 10
        /\ \A i \in 1..Len(ds) : ds[i] >= 48 /\ ds[i] <= 57
        /\ Len(ds) > 1 => ds[1] # 48
        /\ NegatedValue(ds) = IF x < 0 THEN x ELSE 0 - x

\* val is one of the two unset sentinels.
IsSentinel(v) ==
    \/ v.type = "i32" /\ v.v = UNSET_INTEGER
    \/ v.type = "f64" /\ v.v = UNSET_DOUBLE

\* C7 (sentinel encoding): through make_field and make_field_handle_empty
\* alike, the unset i32 and the unset f64 encode as the empty field (a lone
\* NUL) and any other i32 as its decimal string and a NUL; the two entry
\* points return the same field for every value; and an i32 or f64 that is no
\* sentinel, 0 included, never encodes as the empty field.
C7_SentinelEncoding ==
    pc = "encoded" =>
        /\ field.kind = "Ok"
        /\ field_he = field
        /\ IsSentinel(val) => field.text = <<0>>
        /\ (val.type = "i32" /\ ~IsSentinel(val)) =>
              /\ field.text[Len(field.text)] = 0
              /\ IsDecimalOfI32(SubSeq(field.text, 1, Len(field.text) - 1), val.v)
        /\ (val.type \in {"i32", "f64"} /\ ~IsSentinel(val)) => field.text # <<0>>

\* C7's case: the unset i32 has gone through both entry points.
C7_Witness ==
    /\ pc = "encoded" /\ val.type = "i32" /\ val.v = UNSET_INTEGER
    /\ field.text = <<0>> /\ field_he.text = <<0>>

RECURSIVE Div10(_, _)
\* <<quotient, remainder>> of (r * 65536^Len(u) + u) by 10, for limbs u and
\* a carry r < 10.
Div10(u, r) ==
    IF u = <<>> THEN << <<>>, r >>
    ELSE LET cur == r * 65536 + Head(u)
             rest == Div10(Tail(u), cur % 10)
         IN  << <<cur \div 10>> \o rest[1], rest[2] >>

RECURSIVE UsizeDecimal(_)
\* The decimal digits, in ASCII, of the usize u.
UsizeDecimal(u) ==
    LET qr == Div10(u, 0)
    IN  (IF \A i \in 1..Len(qr[1]) : qr[1][i] = 0 THEN <<>> ELSE UsizeDecimal(qr[1]))
        \o <<48 + qr[2]>>

\* C8 (unsigned/size integer encoding): for every usize v, values above
\* 2^31 - 1 included, make_field returns the decimal representation of v
\* followed by the NUL terminator.
C8_UsizeDecimal ==
    (pc # "encode" /\ val.type = "usize") =>
        field = OkText(UsizeDecimal(val.v) \o <<0>>)

-----------------------------------------------------------------------------
(* Message catalogs. *)

\* enum ServerRspMsgDiscriminants: each variant's name, as its words, and
\* its code.
ServerRspMsgDiscriminants ==
    <<
    [name |-> <<"Tick", "Price">>, code |-> 1],
    [name |-> <<"Tick", "Size">>, code |-> 2],
    [name |-> <<"Order", "Status">>, code |-> 3],
    [name |-> <<"Err", "Msg">>, code |-> 4],
    [name |-> <<"Open", "Order">>, code |-> 5],
    [name |-> <<"Acct", "Value">>, code |-> 6],
    [name |-> <<"Portfolio", "Value">>, code |-> 7],
    [name |-> <<"Acct", "Update", "Time">>, code |-> 8],
    [name |-> <<"Next", "Valid", "Id">>, code |-> 9],
    [name |-> <<"Contract", "Data">>, code |-> 10],
    [name |-> <<"Execution", "Data">>, code |-> 11],
    [name |-> <<"Market", "Depth">>, code |-> 12],
    [name |-> <<"Market", "Depth", "L2">>, code |-> 13],
    [name |-> <<"News", "Bulletins">>, code |-> 14],
    [name |-> <<"Managed", "Accts">>, code |-> 15],
    [name |-> <<"Receive", "Fa">>, code |-> 16],
    [name |-> <<"Historical", "Data">>, code |-> 17],
    [name |-> <<"Bond", "Contract", "Data">>, code |-> 18],
    [name |-> <<"Scanner", "Parameters">>, code |-> 19],
    [name |-> <<"Scanner", "Data">>, code |-> 20],
    [name |-> <<"Tick", "Option", "Computation">>, code |-> 21],
    [name |-> <<"Tick", "Generic">>, code |-> 45],
    [name |-> <<"Tick", "String">>, code |-> 46],
    [name |-> <<"Tick", "Efp">>, code |-> 47],
    [name |-> <<"Current", "Time">>, code |-> 49],
    [name |-> <<"Real", "Time", "Bars">>, code |-> 50],
    [name |-> <<"Fundamental", "Data">>, code |-> 51],
    [name |-> <<"Contract", "Data", "End">>, code |-> 52],
    [name |-> <<"Open", "Order", "End">>, code |-> 53],
    [name |-> <<"Acct", "Download", "End">>, code |-> 54],
    [name |-> <<"Execution", "Data", "End">>, code |-> 55],
    [name |-> <<"Delta", "Neutral", "Validation">>, code |-> 56],
    [name |-> <<"Tick", "Snapshot", "End">>, code |-> 57],
    [name |-> <<"Market", "Data", "Type">>, code |-> 58],
    [name |-> <<"Commission", "Report">>, code |-> 59],
    [name |-> <<"Position", "Data">>, code |-> 61],
    [name |-> <<"Position", "End">>, code |-> 62],
    [name |-> <<"Account", "Summary">>, code |-> 63],
    [name |-> <<"Account", "Summary", "End">>, code |-> 64],
    [name |-> <<"Verify", "Message", "Api">>, code |-> 65],
    [name |-> <<"Verify", "Completed">>, code |-> 66],
    [name |-> <<"Display", "Group", "List">>, code |-> 67],
    [name |-> <<"Display", "Group", "Updated">>, code |-> 68],
    [name |-> <<"Verify", "And", "Auth", "Message", "Api">>, code |-> 69],
    [name |-> <<"Verify", "And", "Auth", "Completed">>, code |-> 70],
    [name |-> <<"Position", "Multi">>, code |-> 71],
    [name |-> <<"Position", "Multi", "End">>, code |-> 72],
    [name |-> <<"Account", "Update", "Multi">>, code |-> 73],
    [name |-> <<"Account", "Update", "Multi", "End">>, code |-> 74],
    [name |-> <<"Security", "Definition", "Option", "Parameter">>, code |-> 75],
    [name |-> <<"Security", "Definition", "Option", "Parameter", "End">>, code |-> 76],
    [name |-> <<"Soft", "Dollar", "Tiers">>, code |-> 77],
    [name |-> <<"Family", "Codes">>, code |-> 78],
    [name |-> <<"Symbol", "Samples">>, code |-> 79],
    [name |-> <<"Mkt", "Depth", "Exchanges">>, code |-> 80],
    [name |-> <<"Tick", "Req", "Params">>, code |-> 81],
    [name |-> <<"Smart", "Components">>, code |-> 82],
    [name |-> <<"News", "Article">>, code |-> 83],
    [name |-> <<"Tick", "News">>, code |-> 84],
    [name |-> <<"News", "Providers">>, code |-> 85],
    [name |-> <<"Historical", "News">>, code |-> 86],
    [name |-> <<"Historical", "News", "End">>, code |-> 87],
    [name |-> <<"Head", "Timestamp">>, code |-> 88],
    [name |-> <<"Histogram", "Data">>, code |-> 89],
    [name |-> <<"Historical", "Data", "Update">>, code |-> 90],
    [name |-> <<"Reroute", "Mkt", "Data", "Req">>, code |-> 91],
    [name |-> <<"Reroute", "Mkt", "Depth", "Req">>, code |-> 92],
    [name |-> <<"Market", "Rule">>, code |-> 93],
    [name |-> <<"Pnl">>, code |-> 94],
    [name |-> <<"Pnl", "Single">>, code |-> 95],
    [name |-> <<"Historical", "Ticks">>, code |-> 96],
    [name |-> <<"Historical", "Ticks", "Bid", "Ask">>, code |-> 97],
    [name |-> <<"Historical", "Ticks", "Last">>, code |-> 98],
    [name |-> <<"Tick", "By", "Tick">>, code |-> 99],
    [name |-> <<"Order", "Bound">>, code |-> 100],
    [name |-> <<"Completed", "Order">>, code |-> 101],
    [name |-> <<"Completed", "Orders", "End">>, code |-> 102]
    >>

\* enum ServerRspMsg: each variant's name, as its words, and its fields in
\* the order declared, each <<name, type>>.
ServerRspMsg ==
    <<
    [name |-> <<"Tick", "Price">>, fields |-> <<<<"req_id", "i32">>, <<"tick_type", "TickType">>, <<"price", "f64">>, <<"tick_attr", "TickAttrib">>>>],
    [name |-> <<"Tick", "Size">>, fields |-> <<<<"req_id", "i32">>, <<"tick_type", "TickType">>, <<"size", "i32">>>>],
    [name |-> <<"Order", "Status">>, fields |-> <<<<"order_id", "i32">>, <<"status", "String">>, <<"filled", "f64">>, <<"remaining", "f64">>, <<"avg_fill_price", "f64">>, <<"perm_id", "i32">>, <<"parent_id", "i32">>, <<"last_fill_price", "f64">>, <<"client_id", "i32">>, <<"why_held", "String">>, <<"mkt_cap_price", "f64">>>>],
    [name |-> <<"Err", "Msg">>, fields |-> <<<<"req_id", "i32">>, <<"error_code", "i32">>, <<"error_str", "String">>>>],
    [name |-> <<"Open", "Order">>, fields |-> <<<<"order_id", "i32">>, <<"contract", "Contract">>, <<"order", "Order">>, <<"order_state", "OrderState">>>>],
    [name |-> <<"Acct", "Value">>, fields |-> <<<<"key", "String">>, <<"val", "String">>, <<"currency", "String">>, <<"account_name", "String">>>>],
    [name |-> <<"Portfolio", "Value">>, fields |-> <<<<"contract", "Contract">>, <<"position", "f64">>, <<"market_price", "f64">>, <<"market_value", "f64">>, <<"average_cost", "f64">>, <<"unrealized_pnl", "f64">>, <<"realized_pnl", "f64">>, <<"account_name", "String">>>>],
    [name |-> <<"Acct", "Update", "Time">>, fields |-> <<<<"time_stamp", "String">>>>],
    [name |-> <<"Next", "Valid", "Id">>, fields |-> <<<<"order_id", "i32">>>>],
    [name |-> <<"Contract", "Data">>, fields |-> <<<<"req_id", "i32">>, <<"contract_details", "ContractDetails">>>>],
    [name |-> <<"Execution", "Data">>, fields |-> <<<<"req_id", "i32">>, <<"contract", "Contract">>, <<"execution", "Execution">>>>],
    [name |-> <<"Market", "Depth">>, fields |-> <<<<"req_id", "i32">>, <<"position", "i32">>, <<"operation", "i32">>, <<"side", "i32">>, <<"price", "f64">>, <<"size", "i32">>>>],
    [name |-> <<"Market", "Depth", "L2">>, fields |-> <<<<"req_id", "i32">>, <<"position", "i32">>, <<"market_maker", "String">>, <<"operation", "i32">>, <<"side", "i32">>, <<"price", "f64">>, <<"size", "i32">>, <<"is_smart_depth", "bool">>>>],
    [name |-> <<"News", "Bulletins">>, fields |-> <<<<"msg_id", "i32">>, <<"msg_type", "i32">>, <<"news_message", "String">>, <<"origin_exch", "String">>>>],
    [name |-> <<"Managed", "Accts">>, fields |-> <<<<"accounts_list", "String">>>>],
    [name |-> <<"Receive", "Fa">>, fields |-> <<<<"fa_data", "FaDataType">>, <<"cxml", "String">>>>],
    [name |-> <<"Historical", "Data">>, fields |-> <<<<"req_id", "i32">>, <<"bar", "BarData">>>>],
    [name |-> <<"Bond", "Contract", "Data">>, fields |-> <<<<"req_id", "i32">>, <<"contract_details", "ContractDetails">>>>],
    [name |-> <<"Scanner", "Parameters">>, fields |-> <<<<"xml", "String">>>>],
    [name |-> <<"Scanner", "Data">>, fields |-> <<<<"req_id", "i32">>, <<"rank", "i32">>, <<"contract_details", "ContractDetails">>, <<"distance", "String">>, <<"benchmark", "String">>, <<"projection", "String">>, <<"legs_str", "String">>>>],
    [name |-> <<"Tick", "Option", "Computation">>, fields |-> <<<<"ticker_id", "i32">>, <<"tick_type", "TickType">>, <<"implied_vol", "f64">>, <<"delta", "f64">>, <<"opt_price", "f64">>, <<"pv_dividend", "f64">>, <<"gamma", "f64">>, <<"vega", "f64">>, <<"theta", "f64">>, <<"und_price", "f64">>>>],
    [name |-> <<"Tick", "Generic">>, fields |-> <<<<"ticker_id", "i32">>, <<"tick_type", "TickType">>, <<"value", "f64">>>>],
    [name |-> <<"Tick", "String">>, fields |-> <<<<"req_id", "i32">>, <<"tick_type", "TickType">>, <<"value", "String">>>>],
    [name |-> <<"Tick", "Efp">>, fields |-> <<<<"ticker_id", "i32">>, <<"tick_type", "TickType">>, <<"basis_points", "f64">>, <<"formatted_basis_points", "String">>, <<"implied_futures_price", "f64">>, <<"hold_days", "i32">>, <<"future_last_trade_date", "String">>, <<"dividend_impact", "f64">>, <<"dividends_to_last_trade_date", "f64">>>>],
    [name |-> <<"Current", "Time">>, fields |-> <<<<"time", "i64">>>>],
    [name |-> <<"Real", "Time", "Bars">>, fields |-> <<<<"req_id", "i32">>, <<"bar", "RealTimeBar">>>>],
    [name |-> <<"Fundamental", "Data">>, fields |-> <<<<"req_id", "i32">>, <<"data", "String">>>>],
    [name |-> <<"Contract", "Data", "End">>, fields |-> <<<<"req_id", "i32">>>>],
    [name |-> <<"Open", "Order", "End">>, fields |-> <<>>],
    [name |-> <<"Acct", "Download", "End">>, fields |-> <<<<"account_name", "String">>>>],
    [name |-> <<"Execution", "Data", "End">>, fields |-> <<<<"req_id", "i32">>>>],
    [name |-> <<"Delta", "Neutral", "Validation">>, fields |-> <<<<"req_id", "i32">>, <<"delta_neutral_contract", "DeltaNeutralContract">>>>],
    [name |-> <<"Scanner", "Data", "End">>, fields |-> <<<<"req_id", "i32">>>>],
    [name |-> <<"Tick", "Snapshot", "End">>, fields |-> <<<<"req_id", "i32">>>>],
    [name |-> <<"Market", "Data", "Type">>, fields |-> <<<<"req_id", "i32">>, <<"market_data_type", "i32">>>>],
    [name |-> <<"Commission", "Report">>, fields |-> <<<<"commission_report", "CommissionReport">>>>],
    [name |-> <<"Position", "Data">>, fields |-> <<<<"account", "String">>, <<"contract", "Contract">>, <<"position", "f64">>, <<"avg_cost", "f64">>>>],
    [name |-> <<"Position", "End">>, fields |-> <<>>],
    [name |-> <<"Account", "Summary">>, fields |-> <<<<"req_id", "i32">>, <<"account", "String">>, <<"tag", "String">>, <<"value", "String">>, <<"currency", "String">>>>],
    [name |-> <<"Account", "Summary", "End">>, fields |-> <<<<"req_id", "i32">>>>],
    [name |-> <<"Verify", "Message", "Api">>, fields |-> <<<<"api_data", "String">>>>],
    [name |-> <<"Verify", "Completed">>, fields |-> <<<<"is_successful", "bool">>, <<"error_text", "String">>>>],
    [name |-> <<"Display", "Group", "List">>, fields |-> <<<<"req_id", "i32">>, <<"groups", "String">>>>],
    [name |-> <<"Display", "Group", "Updated">>, fields |-> <<<<"req_id", "i32">>, <<"contract_info", "String">>>>],
    [name |-> <<"Verify", "And", "Auth", "Message", "Api">>, fields |-> <<<<"api_data", "String">>, <<"xyz_challenge", "String">>>>],
    [name |-> <<"Verify", "And", "Auth", "Completed">>, fields |-> <<<<"is_successful", "bool">>, <<"error_text", "String">>>>],
    [name |-> <<"Position", "Multi">>, fields |-> <<<<"req_id", "i32">>, <<"account", "String">>, <<"model_code", "String">>, <<"contract", "Contract">>, <<"position", "f64">>, <<"avg_cost", "f64">>>>],
    [name |-> <<"Position", "Multi", "End">>, fields |-> <<<<"req_id", "i32">>>>],
    [name |-> <<"Account", "Update", "Multi">>, fields |-> <<<<"req_id", "i32">>, <<"account", "String">>, <<"model_code", "String">>, <<"key", "String">>, <<"value", "String">>, <<"currency", "String">>>>],
    [name |-> <<"Account", "Update", "Multi", "End">>, fields |-> <<<<"req_id", "i32">>>>],
    [name |-> <<"Security", "Definition", "Option", "Parameter">>, fields |-> <<<<"req_id", "i32">>, <<"exchange", "String">>, <<"underlying_con_id", "i32">>, <<"trading_class", "String">>, <<"multiplier", "String">>, <<"expirations", "HashSet<String>">>, <<"strikes", "HashSet<Decimal>">>>>],
    [name |-> <<"Security", "Definition", "Option", "Parameter", "End">>, fields |-> <<<<"req_id", "i32">>>>],
    [name |-> <<"Soft", "Dollar", "Tiers">>, fields |-> <<<<"req_id", "i32">>, <<"tiers", "Vec<SoftDollarTier>">>>>],
    [name |-> <<"Family", "Codes">>, fields |-> <<<<"family_codes", "Vec<FamilyCode>">>>>],
    [name |-> <<"Symbol", "Samples">>, fields |-> <<<<"req_id", "i32">>, <<"contract_descriptions", "Vec<ContractDescription>">>>>],
    [name |-> <<"Mkt", "Depth", "Exchanges">>, fields |-> <<<<"depth_mkt_data_descriptions", "Vec<DepthMktDataDescription>">>>>],
    [name |-> <<"Tick", "Req", "Params">>, fields |-> <<<<"ticker_id", "i32">>, <<"min_tick", "f64">>, <<"bbo_exchange", "String">>, <<"snapshot_permissions", "i32">>>>],
    [name |-> <<"Smart", "Components">>, fields |-> <<<<"req_id", "i32">>, <<"smart_components", "Vec<SmartComponent>">>>>],
    [name |-> <<"News", "Article">>, fields |-> <<<<"req_id", "i32">>, <<"article_type", "i32">>, <<"article_text", "String">>>>],
    [name |-> <<"Tick", "News">>, fields |-> <<<<"ticker_id", "i32">>, <<"time_stamp", "i32">>, <<"provider_code", "String">>, <<"article_id", "String">>, <<"headline", "String">>, <<"extra_data", "String">>>>],
    [name |-> <<"News", "Providers">>, fields |-> <<<<"news_providers", "Vec<NewsProvider>">>>>],
    [name |-> <<"Historical", "News">>, fields |-> <<<<"req_id", "i32">>, <<"time", "String">>, <<"provider_code", "String">>, <<"article_id", "String">>, <<"headline", "String">>>>],
    [name |-> <<"Historical", "News", "End">>, fields |-> <<<<"req_id", "i32">>, <<"has_more", "bool">>>>],
    [name |-> <<"Head", "Timestamp">>, fields |-> <<<<"req_id", "i32">>, <<"head_timestamp", "String">>>>],
    [name |-> <<"Histogram", "Data">>, fields |-> <<<<"req_id", "i32">>, <<"items", "Vec<HistogramData>">>>>],
    [name |-> <<"Historical", "Data", "Update">>, fields |-> <<<<"req_id", "i32">>, <<"bar", "BarData">>>>],
    [name |-> <<"Reroute", "Mkt", "Data", "Req">>, fields |-> <<<<"req_id", "i32">>, <<"con_id", "i32">>, <<"exchange", "String">>>>],
    [name |-> <<"Reroute", "Mkt", "Depth", "Req">>, fields |-> <<<<"req_id", "i32">>, <<"con_id", "i32">>, <<"exchange", "String">>>>],
    [name |-> <<"Market", "Rule">>, fields |-> <<<<"market_rule_id", "i32">>, <<"price_increments", "Vec<PriceIncrement>">>>>],
    [name |-> <<"Pnl">>, fields |-> <<<<"req_id", "i32">>, <<"daily_pnl", "f64">>, <<"unrealized_pnl", "f64">>, <<"realized_pnl", "f64">>>>],
    [name |-> <<"Pnl", "Single">>, fields |-> <<<<"req_id", "i32">>, <<"pos", "i32">>, <<"daily_pnl", "f64">>, <<"unrealized_pnl", "f64">>, <<"realized_pnl", "f64">>, <<"value", "f64">>>>],
    [name |-> <<"Historical", "Ticks">>, fields |-> <<<<"req_id", "i32">>, <<"ticks", "Vec<HistoricalTick>">>, <<"done", "bool">>>>],
    [name |-> <<"Historical", "Ticks", "Bid", "Ask">>, fields |-> <<<<"req_id", "i32">>, <<"ticks", "Vec<HistoricalTickBidAsk>">>, <<"done", "bool">>>>],
    [name |-> <<"Historical", "Ticks", "Last">>, fields |-> <<<<"req_id", "i32">>, <<"ticks", "Vec<HistoricalTickLast>">>, <<"done", "bool">>>>],
    [name |-> <<"Tick", "By", "Tick">>, fields |-> <<<<"req_id", "i32">>, <<"tick_type", "i32">>, <<"time", "i64">>, <<"tick_msg", "TickMsgType">>>>],
    [name |-> <<"Order", "Bound">>, fields |-> <<<<"req_id", "i32">>, <<"api_client_id", "i32">>, <<"api_order_id", "i32">>>>],
    [name |-> <<"Completed", "Order">>, fields |-> <<<<"contract", "Contract">>, <<"order", "Order">>, <<"order_state", "OrderState">>>>],
    [name |-> <<"Completed", "Orders", "End">>, fields |-> <<>>],
    [name |-> <<"Historical", "Data", "End">>, fields |-> <<<<"req_id", "i32">>, <<"start", "String">>, <<"end", "String">>>>]
    >>

\* enum ServerReqMsgDiscriminants
ServerReqMsgDiscriminants ==
    <<
    [name |-> <<"Req", "Mkt", "Data">>, code |-> 1],
    [name |-> <<"Cancel", "Mkt", "Data">>, code |-> 2],
    [name |-> <<"Place", "Order">>, code |-> 3],
    [name |-> <<"Cancel", "Order">>, code |-> 4],
    [name |-> <<"Req", "Open", "Orders">>, code |-> 5],
    [name |-> <<"Req", "Acct", "Data">>, code |-> 6],
    [name |-> <<"Req", "Executions">>, code |-> 7],
    [name |-> <<"Req", "Ids">>, code |-> 8],
    [name |-> <<"Req", "Contract", "Data">>, code |-> 9],
    [name |-> <<"Req", "Mkt", "Depth">>, code |-> 10],
    [name |-> <<"Cancel", "Mkt", "Depth">>, code |-> 11],
    [name |-> <<"Req", "News", "Bulletins">>, code |-> 12],
    [name |-> <<"Cancel", "News", "Bulletins">>, code |-> 13],
    [name |-> <<"Set", "Server", "Loglevel">>, code |-> 14],
    [name |-> <<"Req", "Auto", "Open", "Orders">>, code |-> 15],
    [name |-> <<"Req", "All", "Open", "Orders">>, code |-> 16],
    [name |-> <<"Req", "Managed", "Accts">>, code |-> 17],
    [name |-> <<"Req", "Fa">>, code |-> 18],
    [name |-> <<"Replace", "Fa">>, code |-> 19],
    [name |-> <<"Req", "Historical", "Data">>, code |-> 20],
    [name |-> <<"Exercise", "Options">>, code |-> 21],
    [name |-> <<"Req", "Scanner", "Subscription">>, code |-> 22],
    [name |-> <<"Cancel", "Scanner", "Subscription">>, code |-> 23],
    [name |-> <<"Req", "Scanner", "Parameters">>, code |-> 24],
    [name |-> <<"Cancel", "Historical", "Data">>, code |-> 25],
    [name |-> <<"Req", "Current", "Time">>, code |-> 49],
    [name |-> <<"Req", "Real", "Time", "Bars">>, code |-> 50],
    [name |-> <<"Cancel", "Real", "Time", "Bars">>, code |-> 51],
    [name |-> <<"Req", "Fundamental", "Data">>, code |-> 52],
    [name |-> <<"Cancel", "Fundamental", "Data">>, code |-> 53],
    [name |-> <<"Req", "Calc", "Implied", "Volat">>, code |-> 54],
    [name |-> <<"Req", "Calc", "Option", "Price">>, code |-> 55],
    [name |-> <<"Cancel", "Calc", "Implied", "Volat">>, code |-> 56],
    [name |-> <<"Cancel", "Calc", "Option", "Price">>, code |-> 57],
    [name |-> <<"Req", "Global", "Cancel">>, code |-> 58],
    [name |-> <<"Req", "Market", "Data", "Type">>, code |-> 59],
    [name |-> <<"Req", "Positions">>, code |-> 61],
    [name |-> <<"Req", "Account", "Summary">>, code |-> 62],
    [name |-> <<"Cancel", "Account", "Summary">>, code |-> 63],
    [name |-> <<"Cancel", "Positions">>, code |-> 64],
    [name |-> <<"Verify", "Request">>, code |-> 65],
    [name |-> <<"Verify", "Message">>, code |-> 66],
    [name |-> <<"Query", "Display", "Groups">>, code |-> 67],
    [name |-> <<"Subscribe", "To", "Group", "Events">>, code |-> 68],
    [name |-> <<"Update", "Display", "Group">>, code |-> 69],
    [name |-> <<"Unsubscribe", "From", "Group", "Events">>, code |-> 70],
    [name |-> <<"Start", "Api">>, code |-> 71],
    [name |-> <<"Verify", "And", "Auth", "Request">>, code |-> 72],
    [name |-> <<"Verify", "And", "Auth", "Message">>, code |-> 73],
    [name |-> <<"Req", "Positions", "Multi">>, code |-> 74],
    [name |-> <<"Cancel", "Positions", "Multi">>, code |-> 75],
    [name |-> <<"Req", "Account", "Updates", "Multi">>, code |-> 76],
    [name |-> <<"Cancel", "Account", "Updates", "Multi">>, code |-> 77],
    [name |-> <<"Req", "Sec", "Def", "Opt", "Params">>, code |-> 78],
    [name |-> <<"Req", "Soft", "Dollar", "Tiers">>, code |-> 79],
    [name |-> <<"Req", "Family", "Codes">>, code |-> 80],
    [name |-> <<"Req", "Matching", "Symbols">>, code |-> 81],
    [name |-> <<"Req", "Mkt", "Depth", "Exchanges">>, code |-> 82],
    [name |-> <<"Req", "Smart", "Components">>, code |-> 83],
    [name |-> <<"Req", "News", "Article">>, code |-> 84],
    [name |-> <<"Req", "News", "Providers">>, code |-> 85],
    [name |-> <<"Req", "Historical", "News">>, code |-> 86],
    [name |-> <<"Req", "Head", "Timestamp">>, code |-> 87],
    [name |-> <<"Req", "Histogram", "Data">>, code |-> 88],
    [name |-> <<"Cancel", "Histogram", "Data">>, code |-> 89],
    [name |-> <<"Cancel", "Head", "Timestamp">>, code |-> 90],
    [name |-> <<"Req", "Market", "Rule">>, code |-> 91],
    [name |-> <<"Req", "Pnl">>, code |-> 92],
    [name |-> <<"Cancel", "Pnl">>, code |-> 93],
    [name |-> <<"Req", "Pnl", "Single">>, code |-> 94],
    [name |-> <<"Cancel", "Pnl", "Single">>, code |-> 95],
    [name |-> <<"Req", "Historical", "Ticks">>, code |-> 96],
    [name |-> <<"Req", "Tick", "By", "Tick", "Data">>, code |-> 97],
    [name |-> <<"Cancel", "Tick", "By", "Tick", "Data">>, code |-> 98],
    [name |-> <<"Req", "Completed", "Orders">>, code |-> 99]
    >>

\* enum ServerReqMsg
ServerReqMsg ==
    <<
    [name |-> <<"Req", "Mkt", "Data">>, fields |-> <<<<"version", "i32">>, <<"req_id", "i32">>, <<"contract", "ContractPreamble">>, <<"trading_class", "String">>, <<"generic_tick_list", "String">>, <<"snapshot", "bool">>, <<"regulatory_snapshot", "bool">>, <<"mkt_data_options", "String">>>>],
    [name |-> <<"Cancel", "Mkt", "Data">>, fields |-> <<<<"version", "i32">>, <<"req_id", "i32">>>>],
    [name |-> <<"Place", "Order">>, fields |-> <<<<"version", "i32">>, <<"order_id", "i32">>, <<"contract", "ContractPreamble">>, <<"trading_class", "String">>, <<"sec_id_type", "String">>, <<"sec_id", "String">>, <<"order", "Order">>>>],
    [name |-> <<"Cancel", "Order">>, fields |-> <<<<"version", "i32">>, <<"order_id", "i32">>>>],
    [name |-> <<"Req", "Open", "Orders">>, fields |-> <<<<"version", "i32">>>>],
    [name |-> <<"Req", "Acct", "Data">>, fields |-> <<<<"version", "i32">>, <<"subscribe", "bool">>, <<"acct_code", "String">>>>],
    [name |-> <<"Req", "Executions">>, fields |-> <<<<"version", "i32">>, <<"req_id", "i32">>, <<"exec_filter", "ExecutionFilter">>>>],
    [name |-> <<"Req", "Ids">>, fields |-> <<<<"version", "i32">>, <<"num_ids", "i32">>>>],
    [name |-> <<"Req", "Contract", "Data">>, fields |-> <<<<"version", "i32">>, <<"req_id", "i32">>, <<"contract", "ContractPreamble">>, <<"trading_class", "String">>, <<"include_expired", "bool">>, <<"sec_id_type", "String">>, <<"sec_id", "String">>>>],
    [name |-> <<"Req", "Mkt", "Depth">>, fields |-> <<<<"version", "i32">>, <<"req_id", "i32">>, <<"contract", "ContractPreamble">>, <<"trading_class", "String">>, <<"num_rows", "i32">>, <<"is_smart_depth", "bool">>, <<"mkt_depth_options", "String">>>>],
    [name |-> <<"Cancel", "Mkt", "Depth">>, fields |-> <<<<"version", "i32">>, <<"req_id", "i32">>, <<"is_smart_depth", "bool">>>>],
    [name |-> <<"Req", "News", "Bulletins">>, fields |-> <<<<"version", "i32">>, <<"all_msgs", "bool">>>>],
    [name |-> <<"Cancel", "News", "Bulletins">>, fields |-> <<<<"version", "i32">>>>],
    [name |-> <<"Set", "Server", "Loglevel">>, fields |-> <<<<"version", "i32">>, <<"log_level", "i32">>>>],
    [name |-> <<"Req", "Auto", "Open", "Orders">>, fields |-> <<<<"version", "i32">>, <<"auto_bind", "bool">>>>],
    [name |-> <<"Req", "All", "Open", "Orders">>, fields |-> <<<<"version", "i32">>>>],
    [name |-> <<"Req", "Managed", "Accts">>, fields |-> <<<<"version", "i32">>>>],
    [name |-> <<"Req", "Fa">>, fields |-> <<<<"version", "i32">>, <<"fa_data", "i32">>>>],
    [name |-> <<"Replace", "Fa">>, fields |-> <<<<"version", "i32">>, <<"fa_data", "i32">>, <<"cxml", "String">>>>],
    [name |-> <<"Req", "Historical", "Data">>, fields |-> <<<<"version", "i32">>, <<"req_id", "i32">>, <<"contract", "ContractPreamble">>, <<"trading_class", "String">>, <<"include_expired", "bool">>, <<"keep_up_to_date", "bool">>, <<"chart_options", "String">>>>],
    [name |-> <<"Exercise", "Options">>, fields |-> <<<<"version", "i32">>, <<"req_id", "i32">>, <<"contract", "ContractPreamble">>, <<"trading_class", "String">>, <<"exercise_action", "i32">>, <<"exercise_quantity", "i32">>, <<"account", "String">>, <<"over_ride", "i32">>>>],
    [name |-> <<"Req", "Scanner", "Subscription">>, fields |-> <<<<"version", "i32">>, <<"req_id", "i32">>, <<"subscription", "ScannerSubscription">>, <<"scanner_subscription_filter", "String">>, <<"scanner_subscription_options", "String">>>>],
    [name |-> <<"Cancel", "Scanner", "Subscription">>, fields |-> <<<<"version", "i32">>, <<"req_id", "i32">>>>],
    [name |-> <<"Req", "Scanner", "Parameters">>, fields |-> <<<<"version", "i32">>>>],
    [name |-> <<"Cancel", "Historical", "Data">>, fields |-> <<<<"version", "i32">>, <<"req_id", "i32">>>>],
    [name |-> <<"Req", "Current", "Time">>, fields |-> <<<<"version", "i32">>>>],
    [name |-> <<"Req", "Real", "Time", "Bars">>, fields |-> <<<<"version", "i32">>, <<"req_id", "i32">>, <<"contract", "ContractPreamble">>, <<"trading_class", "String">>, <<"bar_size", "i32">>, <<"what_to_show", "String">>, <<"use_rth", "bool">>, <<"real_time_bars_options", "String">>>>],
    [name |-> <<"Cancel", "Real", "Time", "Bars">>, fields |-> <<<<"version", "i32">>, <<"req_id", "i32">>>>],
    [name |-> <<"Req", "Fundamental", "Data">>, fields |-> <<<<"version", "i32">>, <<"req_id", "i32">>, <<"contract", "ContractPreamble">>, <<"report_type", "String">>, <<"tags_value_count", "i32">>, <<"fund_data_opt", "String">>>>],
    [name |-> <<"Cancel", "Fundamental", "Data">>, fields |-> <<<<"version", "i32">>, <<"req_id", "i32">>>>],
    [name |-> <<"Req", "Calc", "Implied", "Volat">>, fields |-> <<<<"version", "i32">>, <<"req_id", "i32">>, <<"contract", "ContractPreamble">>, <<"trading_class", "String">>, <<"option_price", "f64">>, <<"under_price", "f64">>, <<"tag_values_cnt", "usize">>, <<"impl_vol_opt", "String">>>>],
    [name |-> <<"Req", "Calc", "Option", "Price">>, fields |-> <<<<"version", "i32">>, <<"req_id", "i32">>, <<"contract", "ContractPreamble">>, <<"trading_class", "String">>, <<"volatility", "f64">>, <<"under_price", "f64">>, <<"tag_values_cnt", "usize">>, <<"opt_prc_opt", "String">>>>],
    [name |-> <<"Cancel", "Calc", "Implied", "Volat">>, fields |-> <<<<"version", "i32">>, <<"req_id", "i32">>>>],
    [name |-> <<"Cancel", "Calc", "Option", "Price">>, fields |-> <<<<"version", "i32">>, <<"req_id", "i32">>>>],
    [name |-> <<"Req", "Global", "Cancel">>, fields |-> <<<<"version", "i32">>>>],
    [name |-> <<"Req", "Market", "Data", "Type">>, fields |-> <<<<"version", "i32">>, <<"market_data_type", "i32">>>>],
    [name |-> <<"Req", "Positions">>, fields |-> <<<<"version", "i32">>>>],
    [name |-> <<"Req", "Account", "Summary">>, fields |-> <<<<"version", "i32">>, <<"req_id", "i32">>, <<"group_name", "String">>, <<"tags", "String">>>>],
    [name |-> <<"Cancel", "Account", "Summary">>, fields |-> <<<<"version", "i32">>, <<"req_id", "i32">>>>],
    [name |-> <<"Cancel", "Positions">>, fields |-> <<<<"version", "i32">>>>],
    [name |-> <<"Verify", "Request">>, fields |-> <<<<"version", "i32">>, <<"api_name", "String">>, <<"api_version", "String">>>>],
    [name |-> <<"Verify", "Message">>, fields |-> <<<<"version", "i32">>, <<"api_data", "String">>>>],
    [name |-> <<"Query", "Display", "Groups">>, fields |-> <<<<"version", "i32">>, <<"req_id", "i32">>>>],
    [name |-> <<"Subscribe", "To", "Group", "Events">>, fields |-> <<<<"version", "i32">>, <<"req_id", "i32">>, <<"group_id", "i32">>>>],
    [name |-> <<"Update", "Display", "Group">>, fields |-> <<<<"version", "i32">>, <<"req_id", "i32">>, <<"contract_info", "String">>>>],
    [name |-> <<"Unsubscribe", "From", "Group", "Events">>, fields |-> <<<<"version", "i32">>, <<"req_id", "i32">>>>],
    [name |-> <<"Start", "Api">>, fields |-> <<<<"version", "i32">>, <<"client_id", "String">>>>],
    [name |-> <<"Verify", "And", "Auth", "Request">>, fields |-> <<<<"version", "i32">>, <<"api_name", "String">>, <<"api_version", "String">>, <<"opaque_isv_key", "String">>>>],
    [name |-> <<"Verify", "And", "Auth", "Message">>, fields |-> <<<<"version", "i32">>, <<"api_data", "String">>, <<"xyz_response", "String">>>>],
    [name |-> <<"Req", "Positions", "Multi">>, fields |-> <<<<"version", "i32">>, <<"req_id", "i32">>, <<"account", "String">>, <<"model_code", "String">>>>],
    [name |-> <<"Cancel", "Positions", "Multi">>, fields |-> <<<<"version", "i32">>, <<"req_id", "i32">>>>],
    [name |-> <<"Req", "Account", "Updates", "Multi">>, fields |-> <<<<"version", "i32">>, <<"req_id", "i32">>, <<"account", "String">>, <<"model_code", "String">>, <<"ledger_and_nlv", "bool">>>>],
    [name |-> <<"Cancel", "Account", "Updates", "Multi">>, fields |-> <<<<"version", "i32">>, <<"req_id", "i32">>>>],
    [name |-> <<"Req", "Sec", "Def", "Opt", "Params">>, fields |-> <<<<"req_id", "i32">>, <<"underlying_symbol", "String">>, <<"fut_fop_exchange", "String">>, <<"underlying_sec_type", "String">>, <<"underlying_con_id", "i32">>>>],
    [name |-> <<"Req", "Soft", "Dollar", "Tiers">>, fields |-> <<<<"req_id", "i32">>>>],
    [name |-> <<"Req", "Family", "Codes">>, fields |-> <<>>],
    [name |-> <<"Req", "Matching", "Symbols">>, fields |-> <<<<"req_id", "i32">>, <<"pattern", "String">>>>],
    [name |-> <<"Req", "Mkt", "Depth", "Exchanges">>, fields |-> <<>>],
    [name |-> <<"Req", "Smart", "Components">>, fields |-> <<<<"req_id", "i32">>, <<"bbo_exchange", "String">>>>],
    [name |-> <<"Req", "News", "Article">>, fields |-> <<<<"req_id", "i32">>, <<"provider_code", "String">>, <<"article_id", "String">>, <<"news_article_options", "String">>>>],
    [name |-> <<"Req", "News", "Providers">>, fields |-> <<>>],
    [name |-> <<"Req", "Historical", "News">>, fields |-> <<<<"req_id", "i32">>, <<"con_id", "i32">>, <<"provider_codes", "String">>, <<"start_date_time", "String">>, <<"end_date_time", "String">>, <<"total_results", "i32">>, <<"historical_news_options", "String">>>>],
    [name |-> <<"Req", "Head", "Timestamp">>, fields |-> <<<<"req_id", "i32">>, <<"contract", "ContractPreamble">>, <<"trading_class", "String">>, <<"include_expired", "bool">>, <<"use_rth", "i32">>, <<"what_to_show", "String">>, <<"format_date", "i32">>>>],
    [name |-> <<"Req", "Histogram", "Data">>, fields |-> <<<<"ticker_id", "i32">>, <<"contract", "ContractPreamble">>, <<"trading_class", "String">>, <<"include_expired", "bool">>, <<"use_rth", "bool">>, <<"time_period", "String">>>>],
    [name |-> <<"Cancel", "Histogram", "Data">>, fields |-> <<<<"ticker_id", "i32">>>>],
    [name |-> <<"Cancel", "Head", "Timestamp">>, fields |-> <<<<"req_id", "i32">>>>],
    [name |-> <<"Req", "Market", "Rule">>, fields |-> <<<<"market_rule_id", "i32">>>>],
    [name |-> <<"Req", "Pnl">>, fields |-> <<<<"req_id", "i32">>, <<"account", "String">>, <<"model_code", "String">>>>],
    [name |-> <<"Cancel", "Pnl">>, fields |-> <<<<"req_id", "i32">>>>],
    [name |-> <<"Req", "Pnl", "Single">>, fields |-> <<<<"req_id", "i32">>, <<"account", "String">>, <<"model_code", "String">>, <<"con_id", "i32">>>>],
    [name |-> <<"Cancel", "Pnl", "Single">>, fields |-> <<<<"req_id", "i32">>>>],
    [name |-> <<"Req", "Historical", "Ticks">>, fields |-> <<<<"req_id", "i32">>, <<"contract", "ContractPreamble">>, <<"trading_class", "String">>, <<"include_expired", "bool">>, <<"start_date_time", "String">>, <<"end_date_time", "String">>, <<"number_of_ticks", "i32">>, <<"what_to_show", "String">>, <<"use_rth", "i32">>, <<"ignore_size", "bool">>, <<"misc_options", "String">>>>],
    [name |-> <<"Req", "Tick", "By", "Tick", "Data">>, fields |-> <<<<"req_id", "i32">>, <<"contract", "ContractPreamble">>, <<"trading_class", "String">>, <<"tick_type", "String">>, <<"number_of_ticks", "i32">>, <<"ignore_size", "bool">>>>],
    [name |-> <<"Cancel", "Tick", "By", "Tick", "Data">>, fields |-> <<<<"req_id", "i32">>>>],
    [name |-> <<"Req", "Completed", "Orders">>, fields |-> <<<<"api_only", "bool">>>>]
    >>

\* The discriminants with the second request reusing the code of the first.
Discriminants_reused(dir) ==
    IF dir = "rsp" THEN ServerRspMsgDiscriminants
    ELSE [ServerReqMsgDiscriminants EXCEPT ![2].code = ServerReqMsgDiscriminants[1].code]

\* The discriminants of a direction: "rsp" for the responses, "req" for the
\* requests.
Discriminants(dir) ==
    IF dir = "rsp" THEN ServerRspMsgDiscriminants ELSE ServerReqMsgDiscriminants

\* The variants with ExecutionDataEnd carrying a count after its req_id.
Variants_end_with_count(dir) ==
    IF dir = "rsp"
    THEN [j \in 1..Len(ServerRspMsg) |->
            IF ServerRspMsg[j].name = <<"Execution", "Data", "End">>
            THEN [ServerRspMsg[j] EXCEPT !.fields = Append(@, <<"count", "i32">>)]
            ELSE ServerRspMsg[j]]
    ELSE ServerReqMsg

\* The variants with ReqFamilyCodes declaring a version field.
Variants_family_with_version(dir) ==
    IF dir = "rsp" THEN ServerRspMsg
    ELSE [j \in 1..Len(ServerReqMsg) |->
            IF ServerReqMsg[j].name = <<"Req", "Family", "Codes">>
            THEN [ServerReqMsg[j] EXCEPT !.fields = <<<<"version", "i32">>>>]
            ELSE ServerReqMsg[j]]

\* The variants of a direction.
Variants(dir) == IF dir = "rsp" THEN ServerRspMsg ELSE ServerReqMsg

\* Option::None, where no variant has the code.
NoDiscriminant == [kind |-> "Option::None"]

\* #[derive(FromPrimitive)] from_i32(n): Some(the first variant whose code is
\* n), or None.
from_i32(dir, n) ==
    LET D == Discriminants(dir)
        hits == {i \in 1..Len(D) : D[i].code = n}
    IN  IF hits = {} THEN NoDiscriminant
        ELSE [kind |-> "Some", name |-> D[CHOOSE i \in hits : \A k \in hits : i <= k].name]

-----------------------------------------------------------------------------
(* Scenario: a code is looked up in the catalog of one direction. *)

InitCatalog ==
    /\ pc = "lookup"
    /\ ptr_width \in {32, 64}
    /\ code \in [dir : {"rsp", "req"}, n : (0 - 1)..MaxCode]
    /\ entry = None
    /\ msg = <<>> /\ frame = None
    /\ buf = <<>> /\ res = None
    /\ sent = <<>> /\ tail = <<>> /\ got = <<>> /\ wire = <<>>
    /\ payload = <<>> /\ fields = None
    /\ val = None /\ field = None /\ field_he = None

FromI32 ==
    /\ pc = "lookup"
    /\ entry' = from_i32(code.dir, code.n)
    /\ pc' = "looked"
    /\ UNCHANGED <<ptr_width, code, frameVars, readVars, drainVars, splitVars, fieldVars>>

NextCatalog == FromI32

SpecCatalog == InitCatalog /\ [][NextCatalog]_vars

\* The positions in the table T of the entries named name.
Named(T, name) == {i \in 1..Len(T) : T[i].name = name}

\* The names of the fields of a variant, in order.
FieldNames(v) == [i \in 1..Len(v.fields) |-> v.fields[i][1]]

\* The two response variants that no discriminant names.
Undiscriminated == {<<"Scanner", "Data", "End">>, <<"Historical", "Data", "End">>}

EndsInEnd(name) == name[Len(name)] = "End"

\* The response terminals that are globally scoped.
GlobalEnds == {<<"Open", "Order", "End">>, <<"Position", "End">>, <<"Completed", "Orders", "End">>}

EndsWithData ==
    { [name |-> <<"Acct", "Download", "End">>, fields |-> << <<"account_name", "String">> >>],
      [name |-> <<"Historical", "News", "End">>, fields |-> << <<"req_id", "i32">>, <<"has_more", "bool">> >>],
      [name |-> <<"Historical", "Data", "End">>, fields |-> << <<"req_id", "i32">>, <<"start", "String">>, <<"end", "String">> >>] }

-----------------------------------------------------------------------------
(* Scenario: a request that has no field is encoded and framed. The payload *)
(* of a request is the field of its discriminant, then its fields in their  *)
(* order (spec, sections 4.5 and 6); the encoder that puts them together is *)
(* the client's, and the fields of a request that has some are given values *)
(* by it: the scenario goes on to the frame for the requests without field. *)

\* The fields of the request variant that the discriminant found names.
RequestFields == Variants("req")[CHOOSE j \in Named(Variants("req"), entry.name) : TRUE].fields

InitRequest ==
    /\ pc = "lookup"
    /\ ptr_width \in {32, 64}
    /\ code \in [dir : {"req"}, n : (0 - 1)..MaxCode]
    /\ entry = None
    /\ msg = <<>> /\ frame = None
    /\ buf = <<>> /\ res = None
    /\ sent = <<>> /\ tail = <<>> /\ got = <<>> /\ wire = <<>>
    /\ payload = <<>> /\ fields = None
    /\ val = None /\ field = None /\ field_he = None

\* The payload of a request without field: make_field of its code.
EncodeRequest ==
    /\ pc = "looked"
    /\ entry.kind = "Some"
    /\ RequestFields = <<>>
    /\ val' = [type |-> "i32", v |-> code.n]
    /\ field' = make_field(val')
    /\ msg' = field'.text
    /\ pc' = "payload"
    /\ UNCHANGED <<ptr_width, frame, field_he, readVars, drainVars, splitVars, catalogVars>>

\* The payload is framed.
FrameRequest ==
    /\ pc = "payload"
    /\ frame' = make_message(msg)
    /\ pc' = IF frame'.kind = "Ok" THEN "framed" ELSE "aborted"
    /\ UNCHANGED <<ptr_width, msg, readVars, drainVars, splitVars, fieldVars, catalogVars>>

NextRequest == FromI32 \/ EncodeRequest \/ FrameRequest

SpecRequest == InitRequest /\ [][NextRequest]_vars

\* The requests without argument, with their codes.
ZeroArgumentRequests ==
    { [name |-> <<"Req", "Family", "Codes">>, code |-> 80],
      [name |-> <<"Req", "Mkt", "Depth", "Exchanges">>, code |-> 82],
      [name |-> <<"Req", "News", "Providers">>, code |-> 85] }

\* C11 (zero-argument requests): ReqFamilyCodes (80), ReqMktDepthExchanges
\* (82) and ReqNewsProviders (85) have no field at all, so no version field,
\* and the payload of each is the field of its discriminant alone (the
\* decimal digits of the code and a NUL); make_message on that payload gives
\* a frame whose 4-byte prefix is the payload's byte length, followed by the
\* payload. Every request variant that declares a version field declares it
\* as its first field.
C11_ZeroArgumentRequests ==
    LET D == Discriminants("req")
        V == Variants("req")
    IN  /\ \A z \in ZeroArgumentRequests :
              /\ \E i \in 1..Len(D) : D[i] = z
              /\ \E j \in 1..Len(V) : V[j].name = z.name /\ V[j].fields = <<>>
        /\ \A j \in 1..Len(V) : \A k \in 1..Len(V[j].fields) :
              V[j].fields[k][1] = "version" => k = 1
        /\ (pc = "looked" /\ (\E z \in ZeroArgumentRequests : z.code = code.n)) =>
              entry.kind = "Some" /\ RequestFields = <<>>
        /\ pc \in {"payload", "framed", "aborted"} =>
              /\ msg[Len(msg)] = 0
              /\ IsDecimalOfI32(SubSeq(msg, 1, Len(msg) - 1), code.n)
              /\ pc # "aborted"
        /\ pc = "framed" =>
              /\ Len(frame.bytes) = 4 + Len(msg)
              /\ frame.bytes[1] = 0
              /\ frame.bytes[2] * 65536 + frame.bytes[3] * 256 + frame.bytes[4] = Len(msg)
              /\ Slice(frame.bytes, 4, Len(frame.bytes)) = msg

\* C11's case: ReqFamilyCodes has been encoded and framed: "80\0" after a
\* prefix of 3.
C11_Witness ==
    /\ pc = "framed" /\ code.n = 80
    /\ entry = [kind |-> "Some", name |-> <<"Req", "Family", "Codes">>]
    /\ msg = <<56, 48, 0>>
    /\ frame.bytes = <<0, 0, 0, 3, 56, 48, 0>>

-----------------------------------------------------------------------------
(* Scenario: the stream of some frames arrives in chunks. The caller appends *)
(* each chunk to the remainder that read_msg last returned and drains again. *)

InitChunk ==
    /\ pc = "recv"
    /\ ptr_width \in {32, 64}
    /\ sent \in SeqsUpTo(SeqsUpTo(PayloadBytes, MaxBody), MaxFrames)
    /\ wire = Frames(sent)
    /\ buf = <<>>
    /\ tail = <<>>
    /\ got = <<>>
    /\ res = None
    /\ msg = <<>> /\ frame = None
    /\ payload = <<>> /\ fields = None
    /\ val = None /\ field = None /\ field_he = None
    /\ code = 0 /\ entry = None

\* A chunk of one byte or more arrives and is appended to the remainder.
Receive ==
    /\ pc = "recv"
    /\ \E n \in 1..Len(wire) :
          /\ buf' = buf \o SubSeq(wire, 1, n)
          /\ wire' = SubSeq(wire, n + 1, Len(wire))
    /\ pc' = "drain"
    /\ UNCHANGED <<ptr_width, res, sent, tail, got, frameVars, splitVars, fieldVars, catalogVars>>

\* read_msg finds no whole frame: the caller keeps the remainder and waits
\* for the next chunk.
ChunkWait ==
    /\ pc = "drain"
    /\ res' = read_msg(buf)
    /\ Incomplete(buf, res')
    /\ buf' = res'.rest
    /\ pc' = "recv"
    /\ UNCHANGED <<ptr_width, drainVars, frameVars, splitVars, fieldVars, catalogVars>>

NextChunk == Receive \/ DrainExtract \/ ChunkWait

SpecChunk == InitChunk /\ [][NextChunk]_vars

RECURSIVE DrainAll(_)
\* The payloads that the calls of read_msg on the successive remainders of b
\* extract, up to the first call that extracts none.
DrainAll(b) ==
    LET r == read_msg(b)
    IN  IF r.kind # "Ok" \/ Incomplete(b, r) THEN <<>>
        ELSE <<r.text>> \o DrainAll(r.rest)

-----------------------------------------------------------------------------
(* What the caller of read_msg can tell from its result. *)

\* The buffers of the read_msg scenario that hold only a part of a frame.
PartialBuffers == {b \in SeqsUpTo(WireBytes, MaxBufLen) : ShortOfDeclared(b)}

\* C13 (Incomplete is distinguishable): read_msg reports Incomplete as no
\* error, and from (size, text, remainder) alone the caller can tell a frame
\* extracted from more bytes needed: when the buffer holds a complete frame
\* at its head, be it of declared length 0, no buffer that holds only a
\* partial frame gets the same result from read_msg.
C13_IncompleteDistinguishable ==
    /\ (pc # "call" /\ ShortOfDeclared(buf)) => res.kind = "Ok"
    /\ (pc = "returned" /\ ~ShortOfDeclared(buf)) =>
          \A b \in PartialBuffers : read_msg(b) # res

-----------------------------------------------------------------------------
(* read_fields on any payload. *)

\* The number of NULs in s.
NulCount(s) == Cardinality({i \in 1..Len(s) : s[i] = 0})

\* The position of the last NUL of s, or 0 where it has none.
LastNul(s) ==
    IF NulCount(s) = 0 THEN 0
    ELSE CHOOSE i \in 1..Len(s) : s[i] = 0 /\ \A k \in (i + 1)..Len(s) : s[k] # 0

====
